---------------------------- MODULE Spec2Model ----------------------------
(***************************************************************************)
(* A model of libpresent: the PRESENT block cipher (S-box, P-box, the 80-  *)
(* and 128-bit key schedules, the block engine), PKCS padding and the      *)
(* string layer (encrypt_str / decrypt_str in ECB and CBC mode).           *)
(*                                                                         *)
(* A u64 is a function from bit positions 0..63 (bit 0 least significant)  *)
(* to {0,1}; a u8 is an integer in 0..255; a byte array is a function from *)
(* 0-based indices, a Vec<u8> a sequence.  The loops are recursive         *)
(* operators; each checks the type of the value it hands to the next       *)
(* iteration (CASE with a single arm), which also makes TLC compute that   *)
(* value before it goes on.                                                *)
(***************************************************************************)
EXTENDS Integers, Sequences, FiniteSets, TLC

(***************************************************************************)
(* u8 / u64 arithmetic                                                     *)
(***************************************************************************)
Pow2(n) == 2 ^ n

\* bit j of the u8 x
BitOf(x, j) == (x \div Pow2(j)) % 2

\* u8 ^ u8
Xor8(a, b) ==
  LET x(j) == ((BitOf(a, j) + BitOf(b, j)) % 2) * Pow2(j)
  IN x(0) + x(1) + x(2) + x(3) + x(4) + x(5) + x(6) + x(7)

\* u8 << n (the bits shifted out are dropped)
Shl8(x, n) == (x * Pow2(n)) % 256

\* u8 >> n
Shr8(x, n) == x \div Pow2(n)

\* the values of a u64 and of a u8
U64 == [0..63 -> {0, 1}]
U8 == 0..255

\* u64 ^ u64
Xor64(a, b) == [i \in 0..63 |-> (a[i] + b[i]) % 2]

Zero64 == [i \in 0..63 |-> 0]
Ones64 == [i \in 0..63 |-> 1]

\* the u64 written as sixteen hexadecimal digits, most significant first
Hex(ds) == [i \in 0..63 |-> BitOf(ds[16 - (i \div 4)], i % 4)]

(***************************************************************************)
(* sbox.rs                                                                 *)
(***************************************************************************)
s_map_enc == [n \in 0..15 |->
  <<12, 5, 6, 11, 9, 0, 10, 13, 3, 14, 15, 8, 4, 7, 1, 2>>[n + 1]]

s_map_dec == [n \in 0..15 |->
  <<5, 14, 15, 8, 12, 1, 2, 13, 11, 4, 6, 3, 0, 7, 9, 10>>[n + 1]]

\* SBox::apply_enc: a lookup of an absent key panics
SBoxEncPanics(input) == input \notin DOMAIN s_map_enc

SBoxApplyEnc(input) == s_map_enc[input]

\* SBox::apply_dec looking the input up in s_map_enc
SBoxApplyDecForward(input) == s_map_enc[input]

\* SBox::apply_dec: a lookup of an absent key panics
SBoxDecPanics(input) == input \notin DOMAIN s_map_dec

SBoxApplyDec(input) == s_map_dec[input]

(***************************************************************************)
(* pbox.rs                                                                 *)
(***************************************************************************)
\* the closure of PBox::apply_enc, a function of the bit position
calc_bit_enc == [bit \in 0..63 |-> (bit % 4) * 16 + (bit \div 4)]

\* the closure of PBox::apply_dec
calc_bit_dec == [bit \in 0..63 |-> (bit \div 16) + (bit % 16) * 4]

\* the loop of PBox::apply from bit on, eight iterations at a time: the
\* input bit at position b is shifted to position calc_bit(b) and added to
\* the output
RECURSIVE PBoxLoop(_, _, _, _)
PBoxLoop(calc_bit, input, bit, output) ==
  IF bit = 64
    THEN output
    ELSE LET sum == [output EXCEPT
                       ![calc_bit[bit]] = @ + input[bit],
                       ![calc_bit[bit + 1]] = @ + input[bit + 1],
                       ![calc_bit[bit + 2]] = @ + input[bit + 2],
                       ![calc_bit[bit + 3]] = @ + input[bit + 3],
                       ![calc_bit[bit + 4]] = @ + input[bit + 4],
                       ![calc_bit[bit + 5]] = @ + input[bit + 5],
                       ![calc_bit[bit + 6]] = @ + input[bit + 6],
                       ![calc_bit[bit + 7]] = @ + input[bit + 7]]
         IN CASE sum \in U64 -> PBoxLoop(calc_bit, input, bit + 8, sum)

\* PBox::apply
PBoxApply(calc_bit, input) == PBoxLoop(calc_bit, input, 0, Zero64)

\* PBox::apply_enc with the closure of apply_dec
PBoxApplyEncInverted(input) == PBoxApply(calc_bit_dec, input)

\* PBox::apply_enc
PBoxApplyEnc(input) == PBoxApply(calc_bit_enc, input)

\* PBox::apply_dec
PBoxApplyDec(input) == PBoxApply(calc_bit_dec, input)

(***************************************************************************)
(* keys.rs                                                                 *)
(***************************************************************************)
\* the 64 leftmost bits of the key register (bytes 0..7, big-endian)
KeyVal(key_register) ==
  [i \in 0..63 |-> BitOf(key_register[7 - (i \div 8)], i % 8)]

\* Mutate80 with the S-box on both nibbles of byte 0, as for 128 bits
Mutate80BothNibbles(tmp_register, round) ==
  LET rot == [byte \in 0..9 |->
                Shl8(tmp_register[(byte + 7) % 10], 5) +
                Shr8(tmp_register[(byte + 8) % 10], 3)]
      sbox_result_1 == SBoxApplyEnc(Shr8(rot[0], 4))
      sbox_result_2 == SBoxApplyEnc(rot[0] % 16)
      sub == [rot EXCEPT ![0] = Shl8(sbox_result_1, 4) + sbox_result_2]
  IN [sub EXCEPT ![7] = Xor8(sub[7], Shr8(round, 1)),
                 ![8] = Xor8(sub[8], Shl8(round, 7))]

\* one mutation of the 80-bit key register, round counter round
Mutate80(tmp_register, round) ==
  LET rot == [byte \in 0..9 |->
                Shl8(tmp_register[(byte + 7) % 10], 5) +
                Shr8(tmp_register[(byte + 8) % 10], 3)]
      sbox_result == SBoxApplyEnc(Shr8(rot[0], 4))
      sub == [rot EXCEPT ![0] = (rot[0] % 16) + Shl8(sbox_result, 4)]
  IN [sub EXCEPT ![7] = Xor8(sub[7], Shr8(round, 1)),
                 ![8] = Xor8(sub[8], Shl8(round, 7))]

\* Mutate128 with the round counter where the 80-bit schedule puts it
Mutate128Counter80(tmp_register, round) ==
  LET rot == [byte \in 0..15 |->
                Shl8(tmp_register[(byte + 7) % 16], 5) +
                Shr8(tmp_register[(byte + 8) % 16], 3)]
      sbox_result_1 == SBoxApplyEnc(Shr8(rot[0], 4))
      sbox_result_2 == SBoxApplyEnc(rot[0] % 16)
      sub == [rot EXCEPT ![0] = Shl8(sbox_result_1, 4) + sbox_result_2]
  IN [sub EXCEPT ![7] = Xor8(sub[7], Shr8(round, 1)),
                 ![8] = Xor8(sub[8], Shl8(round, 7))]

\* one mutation of the 128-bit key register
Mutate128(tmp_register, round) ==
  LET rot == [byte \in 0..15 |->
                Shl8(tmp_register[(byte + 7) % 16], 5) +
                Shr8(tmp_register[(byte + 8) % 16], 3)]
      sbox_result_1 == SBoxApplyEnc(Shr8(rot[0], 4))
      sbox_result_2 == SBoxApplyEnc(rot[0] % 16)
      sub == [rot EXCEPT ![0] = Shl8(sbox_result_1, 4) + sbox_result_2]
  IN [sub EXCEPT ![7] = Xor8(sub[7], Shr8(round, 2)),
                 ![8] = Xor8(sub[8], Shl8(round, 6))]

\* a key is a record [bits |-> 80 or 128, value |-> the byte array]
Mutate(bits, reg, round) ==
  IF bits = 80 THEN Mutate80(reg, round) ELSE Mutate128(reg, round)

\* the loop of generate_round_keys from round counter round on; round_keys
\* is the sequence of the round keys extracted so far
RECURSIVE ScheduleLoop(_, _, _, _)
ScheduleLoop(bits, key_register, round, round_keys) ==
  IF round = 32
    THEN Append(round_keys, KeyVal(key_register))
    ELSE LET next_register == Mutate(bits, key_register, round)
             next_keys == Append(round_keys, KeyVal(key_register))
         IN CASE next_register \in [0..(bits \div 8) - 1 -> U8]
                   /\ Len(next_keys) = round ->
                   ScheduleLoop(bits, next_register, round + 1, next_keys)

\* Key::generate_round_keys; round key i of the code is element i + 1
generate_round_keys(key) == ScheduleLoop(key.bits, key.value, 1, <<>>)

\* one mutation of the key register panics: a sum of two u8 overflows, or
\* S_BOX.apply_enc is given a value that is not a key of its map
MutatePanics(bits, tmp_register) ==
  LET n == bits \div 8
      rot == [byte \in 0..n - 1 |->
                Shl8(tmp_register[(byte + 7) % n], 5) +
                Shr8(tmp_register[(byte + 8) % n], 3)]
  IN \/ \E byte \in 0..n - 1 : rot[byte] \notin U8
     \/ SBoxEncPanics(Shr8(rot[0], 4))
     \/ bits = 128 /\ SBoxEncPanics(rot[0] % 16)

\* generate_round_keys panics in one of its mutations, from round on
RECURSIVE SchedulePanics(_, _, _)
SchedulePanics(bits, key_register, round) ==
  IF round = 32
    THEN FALSE
    ELSE \/ MutatePanics(bits, key_register)
         \/ LET next_register == Mutate(bits, key_register, round)
            IN CASE next_register \in [0..(bits \div 8) - 1 -> U8] ->
                 SchedulePanics(bits, next_register, round + 1)

(***************************************************************************)
(* block.rs                                                                *)
(***************************************************************************)
\* Block::from_bytes, bytes a function on 0..7
from_bytes(bytes) ==
  [i \in 0..63 |-> BitOf(bytes[7 - (i \div 8)], i % 8)]

\* Block::to_bytes
to_bytes(state) ==
  [k \in 0..7 |->
    LET b(j) == state[(7 - k) * 8 + j] * Pow2(j)
    IN b(0) + b(1) + b(2) + b(3) + b(4) + b(5) + b(6) + b(7)]

\* ((state >> shift) as u8) % 16
Nibble(state, shift) ==
  state[shift] + 2 * state[shift + 1] + 4 * state[shift + 2]
    + 8 * state[shift + 3]

\* the number of nibbles the substitution loops run over
SubstitutionSplits == 16

\* apply_substitution_enc over fifteen nibbles, the top one left out
apply_substitution_enc_15(state) ==
  [i \in 0..63 |->
    IF i \div 4 < 15
      THEN BitOf(SBoxApplyEnc(Nibble(state, 4 * (i \div 4))), i % 4)
      ELSE 0]

\* Block::apply_substitution_enc
apply_substitution_enc(state) ==
  [i \in 0..63 |->
    IF i \div 4 < SubstitutionSplits
      THEN BitOf(SBoxApplyEnc(Nibble(state, 4 * (i \div 4))), i % 4)
      ELSE 0]

\* apply_substitution_dec over fifteen nibbles, the top one left out
apply_substitution_dec_15(state) ==
  [i \in 0..63 |->
    IF i \div 4 < 15
      THEN BitOf(SBoxApplyDec(Nibble(state, 4 * (i \div 4))), i % 4)
      ELSE 0]

\* Block::apply_substitution_dec
apply_substitution_dec(state) ==
  [i \in 0..63 |->
    IF i \div 4 < SubstitutionSplits
      THEN BitOf(SBoxApplyDec(Nibble(state, 4 * (i \div 4))), i % 4)
      ELSE 0]

\* the encryption rounds from round on (round 0-based as in the code)
RECURSIVE EncRounds(_, _, _)
EncRounds(state, round_keys, round) ==
  IF round = 31
    THEN Xor64(state, round_keys[32])
    ELSE LET next == PBoxApplyEnc(apply_substitution_enc(
                       Xor64(state, round_keys[round + 1])))
         IN CASE next \in U64 -> EncRounds(next, round_keys, round + 1)

\* Block::encrypt
BlockEncrypt(state, key) ==
  LET round_keys == generate_round_keys(key)
  IN CASE Len(round_keys) = 32 -> EncRounds(state, round_keys, 0)

\* the decryption rounds from round down to 1
RECURSIVE DecRounds(_, _, _)
DecRounds(state, round_keys, round) ==
  IF round = 0
    THEN Xor64(state, round_keys[1])
    ELSE LET next == apply_substitution_dec(PBoxApplyDec(
                       Xor64(state, round_keys[round + 1])))
         IN CASE next \in U64 -> DecRounds(next, round_keys, round - 1)

\* Block::decrypt with the rounds 30..1, round key 31 never added
BlockDecryptFrom30(state, key) ==
  LET round_keys == generate_round_keys(key)
  IN CASE Len(round_keys) = 32 -> DecRounds(state, round_keys, 30)

\* Block::decrypt
BlockDecrypt(state, key) ==
  LET round_keys == generate_round_keys(key)
  IN CASE Len(round_keys) = 32 -> DecRounds(state, round_keys, 31)

\* apply_substitution_dec panics: one of its S-box lookups does
SubstitutionDecPanics(state) ==
  \E split \in 0..SubstitutionSplits - 1 :
    SBoxDecPanics(Nibble(state, 4 * split))

\* the decryption rounds from round down to 1 panic
RECURSIVE DecRoundsPanic(_, _, _)
DecRoundsPanic(state, round_keys, round) ==
  IF round = 0
    THEN FALSE
    ELSE LET permuted == PBoxApplyDec(Xor64(state, round_keys[round + 1]))
             next == apply_substitution_dec(permuted)
         IN \/ SubstitutionDecPanics(permuted)
            \/ CASE next \in U64 ->
                 DecRoundsPanic(next, round_keys, round - 1)

\* Block::decrypt panics
BlockDecryptPanics(state, key) ==
  \/ SchedulePanics(key.bits, key.value, 1)
  \/ DecRoundsPanic(state, generate_round_keys(key), 31)


(***************************************************************************)
(* The lazy statics S_BOX and P_BOX (lazy_static!, a std::sync::Once) and  *)
(* Block::encrypt / Block::decrypt one loop iteration at a time            *)
(***************************************************************************)
\* SBox::new() and PBox::new()
SBoxNew == [s_map_enc |-> s_map_enc, s_map_dec |-> s_map_dec]
PBoxNew == "PBox {}"

\* the SBox while SBox::new() runs: its maps are still empty
SBoxUnderConstruction == [s_map_enc |-> <<>>, s_map_dec |-> <<>>]

\* a lazy static: its Once is incomplete, running in thread by, or complete
LazyIncomplete == [once |-> "incomplete", by |-> 0, value |-> "none"]
LazyRunning(t, v) == [once |-> "running", by |-> t, value |-> v]
LazyComplete(t, v) == [once |-> "complete", by |-> t, value |-> v]

\* a dereference that returns while the initialiser still runs in another
\* thread
LazyVisibleEarly(cell, t) ==
  cell.once = "complete" \/ (cell.once = "running" /\ cell.by # t)

\* a dereference of the lazy static in thread t returns: the Once is
\* complete (until then call_once blocks the threads that did not start it)
LazyVisible(cell, t) == cell.once = "complete"

\* one iteration of the loop of Block::encrypt, the round-th (from 0)
EncryptRound(state, round_keys, round) ==
  PBoxApplyEnc(apply_substitution_enc(Xor64(state, round_keys[round + 1])))

\* one iteration of the loop of Block::decrypt, the round-th (from 0): the
\* loop counts from 31 down to 1
DecryptRound(state, round_keys, round) ==
  apply_substitution_dec(PBoxApplyDec(
    Xor64(state, round_keys[31 - round + 1])))

\* the round key added after the loop
FinalRoundKey(op, round_keys) ==
  IF op = "encrypt" THEN round_keys[32] ELSE round_keys[1]

(***************************************************************************)
(* Byte strings                                                            *)
(***************************************************************************)
\* the array with the elements of the sequence s
ToArray(s) == [i \in 0..Len(s) - 1 |-> s[i + 1]]

\* str::bytes of one character: the UTF-8 encoding of code point cp
Utf8Char(cp) ==
  IF cp < 128 THEN <<cp>>
  ELSE IF cp < 2048 THEN <<192 + (cp \div 64), 128 + (cp % 64)>>
  ELSE IF cp < 65536
    THEN <<224 + (cp \div 4096), 128 + ((cp \div 64) % 64), 128 + (cp % 64)>>
  ELSE <<240 + (cp \div 262144), 128 + ((cp \div 4096) % 64),
         128 + ((cp \div 64) % 64), 128 + (cp % 64)>>

\* str::bytes of a sequence of characters
RECURSIVE Utf8(_)
Utf8(chars) ==
  IF chars = <<>> THEN <<>> ELSE Utf8Char(Head(chars)) \o Utf8(Tail(chars))

IsCont(b) == b \in 128..191

\* String::from_utf8 succeeds on the bytes from index i on (well-formed
\* UTF-8: no overlong forms, no surrogates, nothing above U+10FFFF)
RECURSIVE Utf8ValidFrom(_, _)
Utf8ValidFrom(bytes, i) ==
  IF i > Len(bytes) THEN TRUE
  ELSE LET b == bytes[i]
           n == Len(bytes) - i
           c(k) == bytes[i + k]
       IN IF b < 128 THEN Utf8ValidFrom(bytes, i + 1)
          ELSE IF b \in 194..223
            THEN n >= 1 /\ IsCont(c(1)) /\ Utf8ValidFrom(bytes, i + 2)
          ELSE IF b \in 224..239
            THEN /\ n >= 2
                 /\ IF b = 224 THEN c(1) \in 160..191
                    ELSE IF b = 237 THEN c(1) \in 128..159
                    ELSE IsCont(c(1))
                 /\ IsCont(c(2))
                 /\ Utf8ValidFrom(bytes, i + 3)
          ELSE IF b \in 240..244
            THEN /\ n >= 3
                 /\ IF b = 240 THEN c(1) \in 144..191
                    ELSE IF b = 244 THEN c(1) \in 128..143
                    ELSE IsCont(c(1))
                 /\ IsCont(c(2))
                 /\ IsCont(c(3))
                 /\ Utf8ValidFrom(bytes, i + 4)
          ELSE FALSE

\* String::from_utf8(bytes).is_ok()
Utf8Valid(bytes) == Utf8ValidFrom(bytes, 1)

(***************************************************************************)
(* lib.rs                                                                  *)
(***************************************************************************)
\* an Option<Block>: <<>> is None, <<b>> is Some(b)
None == <<>>
Some(b) == <<b>>

\* pad_len without the arm for a full block: 0 for a text of 8k bytes
PadLenNoFullBlock(len) == (8 - (len % 8)) % 8

\* pad_len of encrypt_str for a text of len bytes
PadLen(len) == IF len % 8 = 0 THEN 8 ELSE 8 - (len % 8)

\* add_padding panics
AddPaddingPanics(pad_len) == pad_len > 8

\* add_padding filling from the front of the array (the .rev() left out)
add_padding_front(current_bytes, pad_len) ==
  [i \in 0..7 |-> IF i < pad_len THEN pad_len % 256 ELSE current_bytes[i]]

\* add_padding: the last pad_len bytes of the array are set to pad_len
add_padding(current_bytes, pad_len) ==
  [i \in 0..7 |-> IF i >= 8 - pad_len THEN pad_len % 256
                                      ELSE current_bytes[i]]

\* check_padding panics
CheckPaddingPanics(final_block) == Len(final_block) # 8

\* check_padding of a slice (a sequence, final_block[8] its last byte):
\* ok with the number of bytes to remove, or not ok (InvalidPadding)
check_padding(final_block) ==
  LET pad == final_block[8]
  IN IF pad > 8
       THEN [ok |-> FALSE, to_remove |-> 0]
       ELSE IF \E k \in 1..pad : final_block[9 - k] # pad
         THEN [ok |-> FALSE, to_remove |-> 0]
         ELSE [ok |-> TRUE, to_remove |-> pad]

\* blocks_to_bytes
blocks_to_bytes(blocks) ==
  [k \in 1..8 * Len(blocks) |->
     to_bytes(blocks[((k - 1) \div 8) + 1])[(k - 1) % 8]]

\* EncryptNext with the IV left out of the first block
EncryptNextNoIv(current_bytes, ciphertext, key, mode, init_vec) ==
  LET block == from_bytes(current_bytes)
      chained ==
        IF mode = "CBC" /\ Len(ciphertext) > 0
          THEN Xor64(block, ciphertext[Len(ciphertext)])
          ELSE block
  IN BlockEncrypt(chained, key)

\* the block pushed by encrypt_str when current_bytes is full or padded:
\* in CBC mode it is XORed with the previous ciphertext block (the IV for
\* the first block) before it is encrypted
EncryptNext(current_bytes, ciphertext, key, mode, init_vec) ==
  LET block == from_bytes(current_bytes)
      chained ==
        IF mode = "CBC"
          THEN Xor64(block, IF Len(ciphertext) > 0
                              THEN ciphertext[Len(ciphertext)]
                              ELSE init_vec)
          ELSE block
  IN BlockEncrypt(chained, key)

\* the byte loop of encrypt_str from byte index i (0-based) on
RECURSIVE EncryptLoop(_, _, _, _, _, _, _)
EncryptLoop(bytes, i, current_bytes, ciphertext, key, mode, init_vec) ==
  IF i = Len(bytes)
    THEN [current_bytes |-> current_bytes, ciphertext |-> ciphertext]
    ELSE LET filled == [current_bytes EXCEPT ![i % 8] = bytes[i + 1]]
         IN IF i % 8 = 7
              THEN LET block ==
                         EncryptNext(filled, ciphertext, key, mode, init_vec)
                   IN CASE block \in U64 ->
                        EncryptLoop(bytes, i + 1, filled,
                                    Append(ciphertext, block),
                                    key, mode, init_vec)
              ELSE CASE filled \in [0..7 -> U8] ->
                     EncryptLoop(bytes, i + 1, filled, ciphertext,
                                 key, mode, init_vec)

\* encrypt_str; text is the byte sequence of the string, random is the
\* value modes::random_iv returns when it is called (CBC only); panicked
\* says that add_padding panicked, and then nothing is returned
encrypt_str(text, key, mode, random) ==
  LET pad_len == PadLen(Len(text))
      loop == EncryptLoop(text, 0, [i \in 0..7 |-> 0], <<>>,
                          key, mode, random)
      padded == add_padding(loop.current_bytes, pad_len)
      block == EncryptNext(padded, loop.ciphertext, key, mode, random)
  IN [ciphertext |-> blocks_to_bytes(Append(loop.ciphertext, block)),
      iv |-> IF mode = "CBC" THEN Some(random) ELSE None,
      panicked |-> AddPaddingPanics(pad_len)]

\* the results of decrypt_str: Ok(String) carries the bytes of the string,
\* an error its variant and, for the two length errors, the length;
\* decrypted counts the blocks that were decrypted before the return
Ok(bytes, n) ==
  [ok |-> TRUE, value |-> bytes, err |-> "none", len |-> 0, decrypted |-> n]
Err(variant, len, n) ==
  [ok |-> FALSE, value |-> <<>>, err |-> variant, len |-> len,
   decrypted |-> n]

\* decrypt_str does not return, it panics
Panic(n) == Err("panic", 0, n)

\* DecryptLoop with last_block taken from the block after it was decrypted:
\* the next block is XORed with plaintext
RECURSIVE DecryptLoopClobbered(_, _, _, _, _, _, _)
DecryptLoopClobbered(ciphertext, i, current_bytes, plain_bytes, key, mode, last_block) ==
  IF i = Len(ciphertext)
    THEN plain_bytes
    ELSE LET filled == [current_bytes EXCEPT ![i % 8] = ciphertext[i + 1]]
         IN IF i % 8 = 7
              THEN LET decrypted == BlockDecrypt(from_bytes(filled), key)
                       block == IF mode = "CBC"
                                  THEN Xor64(decrypted, last_block)
                                  ELSE decrypted
                       extended ==
                         plain_bytes \o blocks_to_bytes(<<block>>)
                   IN CASE Len(extended) = i + 1 ->
                        DecryptLoopClobbered(ciphertext, i + 1, filled,
                                             extended, key, mode,
                                             IF mode = "CBC" THEN block
                                                             ELSE last_block)
              ELSE CASE filled \in [0..7 -> U8] ->
                     DecryptLoopClobbered(ciphertext, i + 1, filled,
                                          plain_bytes, key, mode, last_block)

\* DecryptLoop with last_block never assigned in the loop: every block is
\* XORed with the IV
RECURSIVE DecryptLoopKeepIv(_, _, _, _, _, _, _)
DecryptLoopKeepIv(ciphertext, i, current_bytes, plain_bytes, key, mode, last_block) ==
  IF i = Len(ciphertext)
    THEN plain_bytes
    ELSE LET filled == [current_bytes EXCEPT ![i % 8] = ciphertext[i + 1]]
         IN IF i % 8 = 7
              THEN LET decrypted == BlockDecrypt(from_bytes(filled), key)
                       block == IF mode = "CBC"
                                  THEN Xor64(decrypted, last_block)
                                  ELSE decrypted
                       extended ==
                         plain_bytes \o blocks_to_bytes(<<block>>)
                   IN CASE Len(extended) = i + 1 ->
                        DecryptLoopKeepIv(ciphertext, i + 1, filled,
                                          extended, key, mode, last_block)
              ELSE CASE filled \in [0..7 -> U8] ->
                     DecryptLoopKeepIv(ciphertext, i + 1, filled,
                                       plain_bytes, key, mode, last_block)

\* the byte loop of decrypt_str from byte index i (0-based) on; in CBC mode
\* last_block is the previous ciphertext block (the IV for the first)
RECURSIVE DecryptLoop(_, _, _, _, _, _, _)
DecryptLoop(ciphertext, i, current_bytes, plain_bytes, key, mode, last_block) ==
  IF i = Len(ciphertext)
    THEN plain_bytes
    ELSE LET filled == [current_bytes EXCEPT ![i % 8] = ciphertext[i + 1]]
         IN IF i % 8 = 7
              THEN LET decrypted == BlockDecrypt(from_bytes(filled), key)
                       block == IF mode = "CBC"
                                  THEN Xor64(decrypted, last_block)
                                  ELSE decrypted
                       extended ==
                         plain_bytes \o blocks_to_bytes(<<block>>)
                   IN CASE Len(extended) = i + 1 ->
                        DecryptLoop(ciphertext, i + 1, filled, extended,
                                    key, mode,
                                    IF mode = "CBC" THEN from_bytes(filled)
                                                    ELSE last_block)
              ELSE CASE filled \in [0..7 -> U8] ->
                     DecryptLoop(ciphertext, i + 1, filled, plain_bytes,
                                 key, mode, last_block)

\* the end of both arms of decrypt_str: the padding check, the truncation
\* and the conversion to a String; the slice plain_bytes[(len - 8)..] and
\* the subtraction len - to_remove panic when they are out of range
Unpad(plain_bytes) ==
  LET len == Len(plain_bytes)
      final_block == SubSeq(plain_bytes, len - 7, len)
      checked == check_padding(final_block)
      truncated == SubSeq(plain_bytes, 1, len - checked.to_remove)
  IN IF len < 8 THEN Panic(len \div 8)
     ELSE IF CheckPaddingPanics(final_block) THEN Panic(len \div 8)
     ELSE IF ~checked.ok THEN Err("InvalidPadding", 0, len \div 8)
     ELSE IF checked.to_remove > len THEN Panic(len \div 8)
     ELSE IF Utf8Valid(truncated) THEN Ok(truncated, len \div 8)
     ELSE Err("Utf8Error", 0, len \div 8)

\* decrypt_str looking at the IV before it looks at the length
decrypt_str_iv_first(ciphertext, key, mode, init_vec) ==
  IF mode = "CBC" /\ init_vec = None
    THEN Err("InitVecMissing", 0, 0)
  ELSE IF Len(ciphertext) < 8
    THEN Err("CiphertextTooShort", Len(ciphertext), 0)
  ELSE IF Len(ciphertext) % 8 # 0
    THEN Err("CiphertextNotAligned", Len(ciphertext), 0)
  ELSE Unpad(DecryptLoop(ciphertext, 0, [i \in 0..7 |-> 0], <<>>,
                         key, mode,
                         IF mode = "CBC" THEN init_vec[1] ELSE Zero64))

\* decrypt_str taking a zero IV when none is given
decrypt_str_zero_iv(ciphertext, key, mode, init_vec) ==
  IF Len(ciphertext) < 8
    THEN Err("CiphertextTooShort", Len(ciphertext), 0)
  ELSE IF Len(ciphertext) % 8 # 0
    THEN Err("CiphertextNotAligned", Len(ciphertext), 0)
  ELSE Unpad(DecryptLoop(ciphertext, 0, [i \in 0..7 |-> 0], <<>>,
                         key, mode,
                         IF init_vec = None THEN Zero64 ELSE init_vec[1]))

\* decrypt_str without its first check, of the length against 8
decrypt_str_no_short_check(ciphertext, key, mode, init_vec) ==
  IF Len(ciphertext) % 8 # 0
    THEN Err("CiphertextNotAligned", Len(ciphertext), 0)
  ELSE IF mode = "ECB"
    THEN Unpad(DecryptLoop(ciphertext, 0, [i \in 0..7 |-> 0], <<>>,
                           key, mode, Zero64))
  ELSE IF init_vec = None
    THEN Err("InitVecMissing", 0, 0)
  ELSE Unpad(DecryptLoop(ciphertext, 0, [i \in 0..7 |-> 0], <<>>,
                         key, mode, init_vec[1]))

\* decrypt_str
decrypt_str(ciphertext, key, mode, init_vec) ==
  IF Len(ciphertext) < 8
    THEN Err("CiphertextTooShort", Len(ciphertext), 0)
  ELSE IF Len(ciphertext) % 8 # 0
    THEN Err("CiphertextNotAligned", Len(ciphertext), 0)
  ELSE IF mode = "ECB"
    THEN Unpad(DecryptLoop(ciphertext, 0, [i \in 0..7 |-> 0], <<>>,
                           key, mode, Zero64))
  ELSE IF init_vec = None
    THEN Err("InitVecMissing", 0, 0)
  ELSE Unpad(DecryptLoop(ciphertext, 0, [i \in 0..7 |-> 0], <<>>,
                         key, mode, init_vec[1]))

\* decrypt_str panics in block.decrypt(key), for one of the blocks it
\* decrypts
decrypt_str_block_panics(ciphertext, key, mode, init_vec) ==
  /\ Len(ciphertext) >= 8 /\ Len(ciphertext) % 8 = 0
  /\ mode = "CBC" => init_vec # None
  /\ \E k \in 1..Len(ciphertext) \div 8 :
       BlockDecryptPanics(
         from_bytes(ToArray(SubSeq(ciphertext, 8 * k - 7, 8 * k))), key)

(***************************************************************************)
(* A caller's own encryption, block by block, with the public operations   *)
(* of Block: from_bytes, ^=, encrypt                                       *)
(***************************************************************************)
\* the blocks of the caller from block k (1-based) on
RECURSIVE ForgeLoop(_, _, _, _, _, _)
ForgeLoop(bytes, k, ciphertext, key, mode, init_vec) ==
  IF 8 * k > Len(bytes)
    THEN ciphertext
    ELSE LET block ==
               EncryptNext(ToArray(SubSeq(bytes, 8 * k - 7, 8 * k)),
                           ciphertext, key, mode, init_vec)
         IN CASE block \in U64 ->
              ForgeLoop(bytes, k + 1, Append(ciphertext, block),
                        key, mode, init_vec)

(***************************************************************************)
(* Sample inputs                                                           *)
(***************************************************************************)
Key80(bytes) == [bits |-> 80, value |-> ToArray(bytes)]
Key128(bytes) == [bits |-> 128, value |-> ToArray(bytes)]

\* the keys of the tests of keys.rs and block.rs
Key80Test == Key80(<<10, 192, 166, 231, 99, 38, 188, 126, 130, 128>>)
Key128Test == Key128(<<10, 192, 166, 231, 99, 38, 188, 126, 130, 128,
                       18, 170, 95, 223, 57, 37>>)
Key80Zero == Key80(<<0, 0, 0, 0, 0, 0, 0, 0, 0, 0>>)
Key80Ones == Key80(<<255, 255, 255, 255, 255, 255, 255, 255, 255, 255>>)
Key128Ones == Key128(<<255, 255, 255, 255, 255, 255, 255, 255,
                       255, 255, 255, 255, 255, 255, 255, 255>>)

Keys == {Key80Test, Key128Test, Key80Zero, Key80Ones, Key128Ones}

\* 0x0123456789ABCDEF and 0x0001A6E7639E6166
Digits64 == Hex(<<0, 1, 2, 3, 4, 5, 6, 7, 8, 9, 10, 11, 12, 13, 14, 15>>)
PBoxTest64 == Hex(<<0, 0, 0, 1, 10, 6, 14, 7, 6, 3, 9, 14, 6, 1, 6, 6>>)

\* the reference vectors of section 8 of the spec and of the tests:
\* CipherPK is the ciphertext of the plaintext of all P under the 80-bit
\* key of all K
Cipher00 == Hex(<<5, 5, 7, 9, 12, 1, 3, 8, 7, 11, 2, 2, 8, 4, 4, 5>>)
Cipher0F == Hex(<<14, 7, 2, 12, 4, 6, 12, 0, 15, 5, 9, 4, 5, 0, 4, 9>>)
CipherF0 == Hex(<<10, 1, 1, 2, 15, 15, 12, 7, 2, 15, 6, 8, 4, 1, 7, 11>>)
CipherFF == Hex(<<3, 3, 3, 3, 13, 12, 13, 3, 2, 1, 3, 2, 1, 0, 13, 2>>)

\* the round keys 0, 1 and 2 of Key80Test and of Key128Test
RoundKey0 == Hex(<<0, 10, 12, 0, 10, 6, 14, 7, 6, 3, 2, 6, 11, 12, 7, 14>>)
RoundKey80_1 == Hex(<<7, 0, 5, 0, 0, 1, 5, 8, 1, 4, 13, 12, 14, 12, 6, 4>>)
RoundKey80_2 == Hex(<<3, 10, 15, 1, 14, 14, 0, 10, 0, 0, 2, 11, 0, 2, 9, 10>>)
RoundKey128_1 == Hex(<<7, 12, 5, 0, 0, 2, 5, 5, 4, 11, 15, 11, 14, 7, 2, 4>>)
RoundKey128_2 == Hex(<<14, 4, 2, 11, 0, 2, 9, 11, 9, 13, 8, 12, 9, 10, 15, 1>>)

\* the u64 with only bit k set
OneBit(k) == [i \in 0..63 |-> IF i = k THEN 1 ELSE 0]

States64 ==
  {Zero64, Ones64, Digits64, PBoxTest64} \cup {OneBit(k) : k \in {0, 21, 63}}

\* how far a block is taken from its original by encryptions or decryptions
MaxDepth == 1

\* the values modes::random_iv may return
IVs == {Zero64, Digits64}

Modes == {"ECB", "CBC"}

\* the keys of the string layer
StrKeys == {Key80Test, Key128Test}

\* the texts: a head of characters followed by up to MaxFill letters 'a'
MaxFill == 6
Heads == {<<>>, <<246, 8594>>}
RECURSIVE Fill(_)
Fill(n) == IF n = 0 THEN <<>> ELSE <<97>> \o Fill(n - 1)
Texts == {Utf8(h \o Fill(n)) : h \in Heads, n \in 0..MaxFill}

\* the texts and the IVs of the CBC scenario: texts of one and of two
\* blocks, and an IV that differs from the zero IV in one bit of byte 0
CbcTexts == {Utf8(h \o Fill(n)) : h \in Heads, n \in {0, 3, MaxFill}}
CbcIVs == IVs \cup {OneBit(56)}

\* the plaintexts a caller encrypts block by block without encrypt_str: a
\* final block of n bytes of value p after 8 - n bytes b, alone or after a
\* block of eight bytes b; 65 is the letter 'A', 255 occurs in no UTF-8
ForgeBodies == {65, 255}
ForgeTails == {<<1, 1>>, <<3, 3>>, <<8, 8>>, <<3, 2>>, <<9, 1>>, <<0, 1>>}
ForgedFinal(b, p, n) == [i \in 1..8 |-> IF i > 8 - n THEN p ELSE b]
ForgedPlains ==
  {ForgedFinal(b, t[1], t[2]) : b \in ForgeBodies, t \in ForgeTails}
    \cup {[i \in 1..8 |-> b] \o ForgedFinal(65, t[1], t[2]) :
            b \in ForgeBodies, t \in {<<1, 1>>, <<9, 1>>}}

\* the IV the caller chains its own blocks from in CBC mode
ForgeIv == Digits64

\* the threads, and the key and the Block each of them owns
Threads == {1, 2}
ThreadKey == <<Key80Test, Key128Test>>
ThreadBlock == <<Digits64, PBoxTest64>>
Ops == {"encrypt", "decrypt"}

\* the states (the test vectors and every state of one bit) and the nibbles
\* given to the boxes, and how many box operations a caller applies in a row
BoxStates ==
  {Zero64, Ones64, Digits64, PBoxTest64} \cup {OneBit(k) : k \in 0..63}
Nibbles == 0..15
MaxOps == 2

\* the final blocks handed to check_padding: n trailing bytes of value p
\* after 8 - n bytes of the letter 'A'
MaxPadByte == 9
FinalBlocks ==
  {[i \in 1..8 |-> IF i > 8 - n THEN p ELSE 65] :
     p \in 0..MaxPadByte, n \in 0..8}

(***************************************************************************)
(* State                                                                   *)
(***************************************************************************)
VARIABLES
  pc,            \* where the caller is in its scenario
  key,           \* the key of the scenario
  text,          \* the bytes of the string given to encrypt_str
  mode,          \* the OpMode given to encrypt_str and decrypt_str
  drawn,         \* what modes::random_iv returned, if it was called
  cipher,        \* the ciphertext encrypt_str returned
  iv,            \* the Option<Block> encrypt_str returned
  given,         \* the ciphertext given to decrypt_str
  given_iv,      \* the init_vec given to decrypt_str
  result,        \* what decrypt_str returned
  block,         \* the state of the caller's Block
  orig,          \* the state the Block was constructed with
  prev,          \* the state of the Block before the last operation
  depth,         \* encryptions minus decryptions applied to the Block
  key_register,  \* generate_round_keys: the key register
  round,         \* generate_round_keys: the round counter
  round_keys,    \* generate_round_keys: the round keys extracted so far
  final_block,   \* the slice given to check_padding
  pad_result,    \* what check_padding returned
  plain,         \* the bytes a caller encrypts block by block by itself
  nibble,        \* the u8 a caller hands from S-box to S-box
  nibble_orig,   \* the u8 it started with
  applied,       \* the box operations the caller has applied, in order
  threads,       \* the operations running in parallel, one per thread
  S_BOX,         \* the lazy static S_BOX
  P_BOX          \* the lazy static P_BOX

vars == <<pc, key, text, mode, drawn, cipher, iv, given, given_iv, result,
          block, orig, prev, depth, key_register, round, round_keys,
          final_block, pad_result, plain, nibble, nibble_orig, applied,
          threads, S_BOX, P_BOX>>

strVars == <<text, mode, drawn, cipher, iv, given, given_iv, result>>
blockVars == <<block, orig, prev, depth>>
keyVars == <<key_register, round, round_keys>>
padVars == <<final_block, pad_result>>
forgeVars == <<plain>>
boxVars == <<nibble, nibble_orig, applied>>
parVars == <<threads, S_BOX, P_BOX>>
restVars == <<forgeVars, boxVars, parVars>>

NoResult == Err("none", 0, 0)
NoPadResult == [ok |-> FALSE, to_remove |-> 0]

StrIdle ==
  /\ text = <<>> /\ mode = "ECB" /\ drawn = None /\ cipher = <<>>
  /\ iv = None /\ given = <<>> /\ given_iv = None /\ result = NoResult
BlockIdle == block = <<>> /\ orig = <<>> /\ prev = <<>> /\ depth = 0
KeyIdle == key_register = <<>> /\ round = 0 /\ round_keys = <<>>
PadIdle == final_block = <<>> /\ pad_result = NoPadResult
ForgeIdle == plain = <<>>
BoxIdle == nibble = 0 /\ nibble_orig = 0 /\ applied = <<>>
ParIdle == threads = <<>> /\ S_BOX = LazyIncomplete /\ P_BOX = LazyIncomplete
RestIdle == ForgeIdle /\ BoxIdle /\ ParIdle

(***************************************************************************)
(* The block engine: a caller constructs a Block and encrypts and decrypts *)
(* it with one key.                                                        *)
(***************************************************************************)
InitBlock ==
  /\ pc = "block"
  /\ key \in Keys
  /\ orig \in States64
  /\ block = orig /\ prev = orig /\ depth = 0
  /\ StrIdle /\ KeyIdle /\ PadIdle /\ RestIdle

\* block.encrypt(&key)
Encrypt ==
  /\ pc \in {"block", "block_encrypted", "block_decrypted"}
  /\ depth < MaxDepth
  /\ block' = BlockEncrypt(block, key)
  /\ prev' = block
  /\ depth' = depth + 1
  /\ pc' = "block_encrypted"
  /\ UNCHANGED <<key, orig, strVars, keyVars, padVars, restVars>>

\* block.decrypt(&key)
Decrypt ==
  /\ pc \in {"block", "block_encrypted", "block_decrypted"}
  /\ depth > -MaxDepth
  /\ block' = BlockDecrypt(block, key)
  /\ prev' = block
  /\ depth' = depth - 1
  /\ pc' = "block_decrypted"
  /\ UNCHANGED <<key, orig, strVars, keyVars, padVars, restVars>>

NextBlock == Encrypt \/ Decrypt

SpecBlock == InitBlock /\ [][NextBlock]_vars

(***************************************************************************)
(* The key schedule, one iteration of the loop of generate_round_keys per  *)
(* step.                                                                   *)
(***************************************************************************)
InitKeys ==
  /\ pc = "schedule"
  /\ key \in Keys
  /\ key_register = key.value
  /\ round = 1
  /\ round_keys = <<>>
  /\ StrIdle /\ BlockIdle /\ PadIdle /\ RestIdle

\* one iteration: the round key is taken, then the register is mutated
ScheduleStep ==
  /\ pc = "schedule"
  /\ round < 32
  /\ round_keys' = Append(round_keys, KeyVal(key_register))
  /\ key_register' = Mutate(key.bits, key_register, round)
  /\ round' = round + 1
  /\ UNCHANGED <<pc, key, strVars, blockVars, padVars, restVars>>

\* after the loop: the final round key
ScheduleFinish ==
  /\ pc = "schedule"
  /\ round = 32
  /\ round_keys' = Append(round_keys, KeyVal(key_register))
  /\ pc' = "scheduled"
  /\ UNCHANGED <<key, key_register, round, strVars, blockVars, padVars, restVars>>

NextKeys == ScheduleStep \/ ScheduleFinish

SpecKeys == InitKeys /\ [][NextKeys]_vars

(***************************************************************************)
(* Padding: check_padding on a final block, and decrypt_str on the         *)
(* ciphertext a caller makes of that block with Block::encrypt.            *)
(***************************************************************************)
InitPad ==
  /\ pc = "pad"
  /\ key = Key80Test
  /\ final_block \in FinalBlocks
  /\ pad_result = NoPadResult
  /\ StrIdle /\ BlockIdle /\ KeyIdle /\ RestIdle

\* check_padding(&final_block)
CheckPadding ==
  /\ pc = "pad"
  /\ pad_result' = check_padding(final_block)
  /\ pc' = "checked"
  /\ UNCHANGED <<key, final_block, strVars, blockVars, keyVars, restVars>>

\* Block::from_bytes(&final_block) and block.encrypt(&key)
EncryptFinalBlock ==
  /\ pc = "pad"
  /\ block' = BlockEncrypt(from_bytes(ToArray(final_block)), key)
  /\ pc' = "forged"
  /\ UNCHANGED <<key, final_block, pad_result, orig, prev, depth, strVars,
                 keyVars, restVars>>

\* decrypt_str(&block.to_bytes(), &key, &OpMode::ECB, None)
DecryptFinalBlock ==
  /\ pc = "forged"
  /\ given' = blocks_to_bytes(<<block>>)
  /\ result' = decrypt_str(given', key, "ECB", None)
  /\ pc' = "unpadded"
  /\ UNCHANGED <<key, final_block, pad_result, blockVars, keyVars, text,
                 mode, drawn, cipher, iv, given_iv, restVars>>

NextPad == CheckPadding \/ EncryptFinalBlock \/ DecryptFinalBlock

SpecPad == InitPad /\ [][NextPad]_vars

(***************************************************************************)
(* The string layer: a caller encrypts a text and gives the ciphertext, or *)
(* a prefix of it, to decrypt_str, with the same key and mode and with any *)
(* init_vec.                                                               *)
(***************************************************************************)
Init ==
  /\ pc = "start"
  /\ key \in StrKeys
  /\ text \in Texts
  /\ mode \in Modes
  /\ drawn = None /\ cipher = <<>> /\ iv = None
  /\ given = <<>> /\ given_iv = None /\ result = NoResult
  /\ BlockIdle /\ KeyIdle /\ PadIdle /\ RestIdle

\* encrypt_str(text, &key, &mode)
EncryptStr ==
  /\ pc = "start"
  /\ \E random \in IF mode = "CBC" THEN IVs ELSE {Zero64} :
       LET out == encrypt_str(text, key, mode, random)
       IN /\ cipher' = out.ciphertext
          /\ iv' = out.iv
          /\ drawn' = IF mode = "CBC" THEN Some(random) ELSE None
          /\ pc' = IF out.panicked THEN "panicked" ELSE "encrypted"
  /\ UNCHANGED <<key, text, mode, given, given_iv, result, blockVars,
                 keyVars, padVars, restVars>>

\* decrypt_str(&cipher[..n], &key, &mode, init_vec)
DecryptStr ==
  /\ pc = "encrypted"
  /\ \E n \in 0..Len(cipher), init_vec \in {None} \cup {Some(v) : v \in IVs} :
       /\ given' = SubSeq(cipher, 1, n)
       /\ given_iv' = init_vec
       /\ result' = decrypt_str(given', key, mode, init_vec)
  /\ pc' = "decrypted"
  /\ UNCHANGED <<key, text, mode, drawn, cipher, iv, blockVars, keyVars,
                 padVars, restVars>>

Next == EncryptStr \/ DecryptStr

Spec == Init /\ [][Next]_vars

(***************************************************************************)
(* CBC: a caller encrypts a text in CBC mode and gives the whole           *)
(* ciphertext to decrypt_str with the returned IV or with another one.     *)
(***************************************************************************)
InitCbc ==
  /\ pc = "cbc"
  /\ key \in StrKeys
  /\ text \in CbcTexts
  /\ mode = "CBC"
  /\ drawn = None /\ cipher = <<>> /\ iv = None
  /\ given = <<>> /\ given_iv = None /\ result = NoResult
  /\ BlockIdle /\ KeyIdle /\ PadIdle /\ RestIdle

\* encrypt_str(text, &key, &OpMode::CBC)
EncryptCbc ==
  /\ pc = "cbc"
  /\ \E random \in CbcIVs :
       LET out == encrypt_str(text, key, mode, random)
       IN /\ cipher' = out.ciphertext
          /\ iv' = out.iv
          /\ drawn' = Some(random)
          /\ pc' = IF out.panicked THEN "panicked" ELSE "cbc_encrypted"
  /\ UNCHANGED <<key, text, mode, given, given_iv, result, blockVars,
                 keyVars, padVars, restVars>>

\* decrypt_str(&cipher, &key, &OpMode::CBC, Some(init_vec))
DecryptCbc ==
  /\ pc = "cbc_encrypted"
  /\ \E init_vec \in CbcIVs :
       /\ given' = cipher
       /\ given_iv' = Some(init_vec)
       /\ result' = decrypt_str(given', key, mode, given_iv')
  /\ pc' = "cbc_decrypted"
  /\ UNCHANGED <<key, text, mode, drawn, cipher, iv, blockVars, keyVars,
                 padVars, restVars>>

NextCbc == EncryptCbc \/ DecryptCbc

SpecCbc == InitCbc /\ [][NextCbc]_vars

(***************************************************************************)
(* Forged ciphertexts: a caller encrypts bytes of its choice block by      *)
(* block with Block::from_bytes, ^=, Block::encrypt and Block::to_bytes,   *)
(* with no padding added, and gives the result, or a prefix of it, to      *)
(* decrypt_str.                                                            *)
(***************************************************************************)
InitForge ==
  /\ pc = "forge"
  /\ key \in StrKeys
  /\ mode \in Modes
  /\ plain \in ForgedPlains
  /\ text = <<>> /\ drawn = None /\ cipher = <<>> /\ iv = None
  /\ given = <<>> /\ given_iv = None /\ result = NoResult
  /\ BlockIdle /\ KeyIdle /\ PadIdle /\ BoxIdle /\ ParIdle

\* the caller makes the ciphertext of plain
ForgeCipher ==
  /\ pc = "forge"
  /\ cipher' = blocks_to_bytes(ForgeLoop(plain, 1, <<>>, key, mode, ForgeIv))
  /\ iv' = IF mode = "CBC" THEN Some(ForgeIv) ELSE None
  /\ pc' = "forged_cipher"
  /\ UNCHANGED <<key, text, mode, drawn, given, given_iv, result, plain,
                 blockVars, keyVars, padVars, boxVars, parVars>>

\* decrypt_str(&cipher[..n], &key, &mode, init_vec)
DecryptForged ==
  /\ pc = "forged_cipher"
  /\ \E n \in 0..Len(cipher), init_vec \in {None, Some(ForgeIv)} :
       /\ given' = SubSeq(cipher, 1, n)
       /\ given_iv' = init_vec
       /\ result' = decrypt_str(given', key, mode, init_vec)
  /\ pc' = "forged_decrypted"
  /\ UNCHANGED <<key, text, mode, drawn, cipher, iv, plain, blockVars,
                 keyVars, padVars, boxVars, parVars>>

NextForge == ForgeCipher \/ DecryptForged

SpecForge == InitForge /\ [][NextForge]_vars

(***************************************************************************)
(* The boxes: a caller hands a nibble from S-box to S-box, or takes a      *)
(* Block through the substitution and permutation layers.                  *)
(***************************************************************************)
InitBoxes ==
  /\ \/ /\ pc = "sbox"
        /\ nibble_orig \in Nibbles
        /\ BlockIdle
     \/ /\ pc = "layers"
        /\ nibble_orig = 0
        /\ orig \in BoxStates
        /\ block = orig /\ prev = orig /\ depth = 0
  /\ nibble = nibble_orig
  /\ applied = <<>>
  /\ key = Key80Zero
  /\ StrIdle /\ KeyIdle /\ PadIdle /\ ForgeIdle /\ ParIdle

\* S_BOX.apply_enc(nibble)
SBoxEnc ==
  /\ pc = "sbox" /\ Len(applied) < MaxOps
  /\ ~SBoxEncPanics(nibble)
  /\ nibble' = SBoxApplyEnc(nibble)
  /\ applied' = Append(applied, "S_BOX.apply_enc")
  /\ UNCHANGED <<pc, key, nibble_orig, strVars, blockVars, keyVars, padVars,
                 forgeVars, parVars>>

\* S_BOX.apply_dec(nibble)
SBoxDec ==
  /\ pc = "sbox" /\ Len(applied) < MaxOps
  /\ ~SBoxDecPanics(nibble)
  /\ nibble' = SBoxApplyDec(nibble)
  /\ applied' = Append(applied, "S_BOX.apply_dec")
  /\ UNCHANGED <<pc, key, nibble_orig, strVars, blockVars, keyVars, padVars,
                 forgeVars, parVars>>

\* block.apply_substitution_enc()
SubstitutionEnc ==
  /\ pc = "layers" /\ Len(applied) < MaxOps
  /\ block' = apply_substitution_enc(block)
  /\ prev' = block
  /\ applied' = Append(applied, "apply_substitution_enc")
  /\ UNCHANGED <<pc, key, orig, depth, nibble, nibble_orig, strVars, keyVars,
                 padVars, forgeVars, parVars>>

\* block.apply_substitution_dec()
SubstitutionDec ==
  /\ pc = "layers" /\ Len(applied) < MaxOps
  /\ block' = apply_substitution_dec(block)
  /\ prev' = block
  /\ applied' = Append(applied, "apply_substitution_dec")
  /\ UNCHANGED <<pc, key, orig, depth, nibble, nibble_orig, strVars, keyVars,
                 padVars, forgeVars, parVars>>

\* block.apply_permutation_enc(): the state goes through P_BOX.apply_enc
PermutationEnc ==
  /\ pc = "layers" /\ Len(applied) < MaxOps
  /\ block' = PBoxApplyEnc(block)
  /\ prev' = block
  /\ applied' = Append(applied, "apply_permutation_enc")
  /\ UNCHANGED <<pc, key, orig, depth, nibble, nibble_orig, strVars, keyVars,
                 padVars, forgeVars, parVars>>

\* block.apply_permutation_dec(): the state goes through P_BOX.apply_dec
PermutationDec ==
  /\ pc = "layers" /\ Len(applied) < MaxOps
  /\ block' = PBoxApplyDec(block)
  /\ prev' = block
  /\ applied' = Append(applied, "apply_permutation_dec")
  /\ UNCHANGED <<pc, key, orig, depth, nibble, nibble_orig, strVars, keyVars,
                 padVars, forgeVars, parVars>>

NextBoxes ==
  \/ SBoxEnc \/ SBoxDec
  \/ SubstitutionEnc \/ SubstitutionDec
  \/ PermutationEnc \/ PermutationDec

SpecBoxes == InitBoxes /\ [][NextBoxes]_vars

(***************************************************************************)
(* Threads: each thread runs one Block::encrypt or Block::decrypt on its   *)
(* own Block with its own key; the threads interleave at the iterations of *)
(* the loops and at the first use of S_BOX and P_BOX.                      *)
(***************************************************************************)
\* alone is what the operation gives when it runs with no other thread
InitPar ==
  /\ pc = "threads"
  /\ key = Key80Zero
  /\ \E ops \in [Threads -> Ops] :
       threads = [t \in Threads |->
         [op |-> ops[t], key |-> ThreadKey[t], state |-> ThreadBlock[t],
          round_keys |-> <<>>, round |-> 0, at |-> "keys",
          alone |-> IF ops[t] = "encrypt"
                      THEN BlockEncrypt(ThreadBlock[t], ThreadKey[t])
                      ELSE BlockDecrypt(ThreadBlock[t], ThreadKey[t])]]
  /\ S_BOX = LazyIncomplete /\ P_BOX = LazyIncomplete
  /\ StrIdle /\ BlockIdle /\ KeyIdle /\ PadIdle /\ ForgeIdle /\ BoxIdle

\* the first dereference of S_BOX: the thread starts SBox::new()
SBoxInitStart ==
  /\ \E t \in Threads :
       /\ threads[t].at = "keys"
       /\ S_BOX.once = "incomplete"
       /\ S_BOX' = LazyRunning(t, SBoxUnderConstruction)
  /\ UNCHANGED <<pc, key, threads, P_BOX, strVars, blockVars, keyVars,
                 padVars, forgeVars, boxVars>>

\* SBox::new() returns and the Once is complete
SBoxInitEnd ==
  /\ S_BOX.once = "running"
  /\ S_BOX' = LazyComplete(S_BOX.by, SBoxNew)
  /\ UNCHANGED <<pc, key, threads, P_BOX, strVars, blockVars, keyVars,
                 padVars, forgeVars, boxVars>>

\* the first dereference of P_BOX: the thread starts PBox::new()
PBoxInitStart ==
  /\ \E t \in Threads :
       /\ threads[t].at = "rounds" /\ threads[t].round < 31
       /\ P_BOX.once = "incomplete"
       /\ P_BOX' = LazyRunning(t, PBoxNew)
  /\ UNCHANGED <<pc, key, threads, S_BOX, strVars, blockVars, keyVars,
                 padVars, forgeVars, boxVars>>

\* PBox::new() returns and the Once is complete
PBoxInitEnd ==
  /\ P_BOX.once = "running"
  /\ P_BOX' = LazyComplete(P_BOX.by, PBoxNew)
  /\ UNCHANGED <<pc, key, threads, S_BOX, strVars, blockVars, keyVars,
                 padVars, forgeVars, boxVars>>

\* key.generate_round_keys(), which looks up S_BOX: in an SBox whose maps
\* lack the key the lookup panics
GenerateRoundKeys ==
  /\ \E t \in Threads :
       /\ threads[t].at = "keys"
       /\ LazyVisible(S_BOX, t)
       /\ threads' =
            IF S_BOX.value = SBoxNew
              THEN [threads EXCEPT
                      ![t].round_keys = generate_round_keys(threads[t].key),
                      ![t].at = "rounds"]
              ELSE [threads EXCEPT ![t].at = "panicked"]
  /\ UNCHANGED <<pc, key, S_BOX, P_BOX, strVars, blockVars, keyVars,
                 padVars, forgeVars, boxVars>>

\* one iteration of the loop of Block::encrypt or Block::decrypt, which
\* looks up S_BOX and calls P_BOX
Round ==
  /\ \E t \in Threads :
       /\ threads[t].at = "rounds" /\ threads[t].round < 31
       /\ LazyVisible(S_BOX, t) /\ LazyVisible(P_BOX, t)
       /\ threads' =
            IF S_BOX.value = SBoxNew
              THEN [threads EXCEPT
                      ![t].state =
                        IF threads[t].op = "encrypt"
                          THEN EncryptRound(threads[t].state,
                                            threads[t].round_keys,
                                            threads[t].round)
                          ELSE DecryptRound(threads[t].state,
                                            threads[t].round_keys,
                                            threads[t].round),
                      ![t].round = @ + 1]
              ELSE [threads EXCEPT ![t].at = "panicked"]
  /\ UNCHANGED <<pc, key, S_BOX, P_BOX, strVars, blockVars, keyVars,
                 padVars, forgeVars, boxVars>>

\* after the loop: the last round key is added and the operation returns
FinalKey ==
  /\ \E t \in Threads :
       /\ threads[t].at = "rounds" /\ threads[t].round = 31
       /\ threads' =
            [threads EXCEPT
               ![t].state = Xor64(threads[t].state,
                                  FinalRoundKey(threads[t].op,
                                                threads[t].round_keys)),
               ![t].at = "done"]
  /\ UNCHANGED <<pc, key, S_BOX, P_BOX, strVars, blockVars, keyVars,
                 padVars, forgeVars, boxVars>>

NextPar ==
  \/ SBoxInitStart \/ SBoxInitEnd \/ PBoxInitStart \/ PBoxInitEnd
  \/ GenerateRoundKeys \/ Round \/ FinalKey

SpecPar == InitPar /\ [][NextPar]_vars

(***************************************************************************)
(* Properties of the string layer (Spec)                                   *)
(***************************************************************************)
\* block k (1-based) of a ciphertext, as a Block
CipherBlock(c, k) == from_bytes(ToArray(SubSeq(c, 8 * k - 7, 8 * k)))

\* the text with its PKCS padding, as section 4.6 of the spec defines it
PaddedText(t) ==
  LET p == IF Len(t) % 8 = 0 THEN 8 ELSE 8 - (Len(t) % 8)
  IN t \o [i \in 1..p |-> p]

\* block k of the ciphertext, decrypted and, in CBC mode, XORed with the
\* block before it (the returned IV for the first block)
Unchained(k) ==
  LET d == BlockDecrypt(CipherBlock(cipher, k), key)
  IN IF mode = "CBC"
       THEN Xor64(d, IF k = 1 THEN iv[1] ELSE CipherBlock(cipher, k - 1))
       ELSE d

\* C1: decrypt_str of the ciphertext and the IV that encrypt_str returned,
\* with the same key and mode, returns Ok with the text that was encrypted,
\* whatever its length.
RoundTrip ==
  (pc = "decrypted" /\ given = cipher /\ given_iv = iv)
    => (result.ok /\ result.value = text /\ result.err = "none")

RoundTripWitness ==
  /\ pc = "decrypted" /\ given = cipher /\ given_iv = iv
  /\ mode = "CBC" /\ key.bits = 128 /\ Len(text) = 8
  /\ result.ok /\ result.value = text

\* C3: the ciphertext of a text of L bytes has L + 8 - (L mod 8) bytes, a
\* positive multiple of 8 greater than L, and the last block of a text of
\* 8k bytes is made of eight bytes 0x08.
LengthLaw ==
  pc \in {"encrypted", "decrypted"} =>
    /\ Len(cipher) = Len(text) + 8 - (Len(text) % 8)
    /\ Len(cipher) > 0 /\ Len(cipher) % 8 = 0 /\ Len(cipher) > Len(text)
    /\ (pc = "encrypted" /\ Len(text) % 8 = 0) =>
         to_bytes(Unchained(Len(cipher) \div 8)) = [i \in 0..7 |-> 8]

LengthLawWitness ==
  /\ pc = "encrypted" /\ mode = "CBC" /\ Len(text) = 8 /\ Len(cipher) = 16
  /\ to_bytes(Unchained(2)) = [i \in 0..7 |-> 8]

\* C8: in any mode and with any init_vec, decrypt_str of fewer than 8 bytes
\* returns CiphertextTooShort and of 8 or more bytes that are not a multiple
\* of 8 returns CiphertextNotAligned, both with the length, and no block
\* has been decrypted.
LengthErrors ==
  pc = "decrypted" =>
    /\ Len(given) < 8 =>
         result = Err("CiphertextTooShort", Len(given), 0)
    /\ (Len(given) >= 8 /\ Len(given) % 8 # 0) =>
         result = Err("CiphertextNotAligned", Len(given), 0)

LengthErrorsWitness ==
  /\ pc = "decrypted" /\ mode = "CBC" /\ given_iv = None
  /\ Len(given) = 13
  /\ result.err = "CiphertextNotAligned" /\ result.len = 13

\* C9: in CBC mode decrypt_str without an IV, of a ciphertext of a positive
\* multiple of 8 bytes, returns InitVecMissing; in ECB mode it never does.
IvMissing ==
  pc = "decrypted" =>
    /\ (mode = "CBC" /\ given_iv = None
          /\ Len(given) >= 8 /\ Len(given) % 8 = 0) =>
         result = Err("InitVecMissing", 0, 0)
    /\ mode = "ECB" => result.err # "InitVecMissing"

IvMissingWitness ==
  /\ pc = "decrypted" /\ mode = "CBC" /\ given_iv = None
  /\ Len(given) = 16 /\ key.bits = 80
  /\ result.err = "InitVecMissing"

\* C10: encrypt_str returns no IV in ECB mode and in CBC mode the IV that
\* random_iv gave it, which is the value XORed into the first block of the
\* padded text before that block is encrypted.
IvIffCbc ==
  pc \in {"encrypted", "decrypted"} =>
    /\ mode = "ECB" => (iv = None /\ drawn = None)
    /\ mode = "CBC" => (iv # None /\ iv = drawn)
    /\ (pc = "encrypted" /\ mode = "CBC") =>
         Xor64(BlockDecrypt(CipherBlock(cipher, 1), key),
               CipherBlock(PaddedText(text), 1)) = iv[1]

IvIffCbcWitness ==
  /\ pc = "encrypted" /\ mode = "CBC" /\ iv = Some(Digits64)
  /\ Len(text) > 8
  /\ Xor64(BlockDecrypt(CipherBlock(cipher, 1), key),
           CipherBlock(PaddedText(text), 1)) = Digits64

\* the five variants of DecryptError
DecryptErrors ==
  {"CiphertextTooShort", "CiphertextNotAligned", "InitVecMissing",
   "InvalidPadding", "Utf8Error"}

\* C12: decrypt_str, whatever bytes, key, mode and init_vec it is given,
\* does not panic (no S-box lookup of an absent key, no check_padding of
\* a slice not of 8 bytes, no slice or subtraction out of range): it
\* returns Ok or one of the five errors; and encrypt_str does not panic in
\* add_padding.
NoFatalPath ==
  /\ pc # "panicked"
  /\ pc = "decrypted" =>
       /\ result.err # "panic"
       /\ IF result.ok THEN result.err = "none"
                       ELSE result.err \in DecryptErrors
       /\ ~decrypt_str_block_panics(given, key, mode, given_iv)

\* bytes that passed the padding check by chance and are not UTF-8
NoFatalPathWitness ==
  /\ pc = "decrypted" /\ mode = "CBC" /\ Len(given) = 16
  /\ given_iv # None /\ given_iv # iv
  /\ result.err = "Utf8Error"
  /\ ~decrypt_str_block_panics(given, key, mode, given_iv)

(***************************************************************************)
(* Properties of CBC (SpecCbc)                                             *)
(***************************************************************************)
\* what decrypt_str has in plain_bytes before the padding check when it is
\* given the whole ciphertext in CBC mode with the IV v
PlainBytes(v) ==
  DecryptLoop(cipher, 0, [i \in 0..7 |-> 0], <<>>, key, "CBC", v)

\* C11: CBC decryption of a ciphertext made with the IV v, with another IV
\* w, gives bytes that differ from the rightly decrypted ones in the first
\* block, by v XOR w, and in no later block; decrypt_str with the wrong IV
\* does not return Ok with the text that was encrypted.
WrongIv ==
  (pc = "cbc_decrypted" /\ given_iv # iv) =>
    LET right == PlainBytes(iv[1])
        wrong == PlainBytes(given_iv[1])
        delta == to_bytes(Xor64(iv[1], given_iv[1]))
    IN /\ Len(wrong) = Len(cipher) /\ Len(right) = Len(cipher)
       /\ \A k \in 1..8 : wrong[k] = Xor8(right[k], delta[k - 1])
       /\ SubSeq(wrong, 1, 8) # SubSeq(right, 1, 8)
       /\ \A k \in 9..Len(cipher) : wrong[k] = right[k]
       /\ ~(result.ok /\ result.value = text)

\* the wrong IV differs in one bit of the first byte: decrypt_str returns
\* Ok, with another text
WrongIvWitness ==
  /\ pc = "cbc_decrypted" /\ given_iv # iv
  /\ Len(cipher) = 16
  /\ result.ok /\ result.value # text
  /\ SubSeq(result.value, 9, Len(text)) = SubSeq(text, 9, Len(text))

\* block k of a ciphertext c, or the IV v for k = 0
ChainBlock(c, v, k) == IF k = 0 THEN v ELSE CipherBlock(c, k)

\* C17: in CBC mode encrypt_str makes c[i] = E_K(p[i] XOR c[i-1]) and
\* decrypt_str p[i] = D_K(c[i]) XOR c[i-1], c[-1] the IV, for every block
\* of the padded text, the last one too; what decrypt_str XORs in is the
\* ciphertext block before, as it was given.
CbcChaining ==
  /\ pc = "cbc_encrypted" =>
       \A k \in 1..Len(cipher) \div 8 :
         CipherBlock(cipher, k) =
           BlockEncrypt(Xor64(CipherBlock(PaddedText(text), k),
                              ChainBlock(cipher, iv[1], k - 1)), key)
  /\ pc = "cbc_decrypted" =>
       LET plain_bytes == PlainBytes(given_iv[1])
       IN \A k \in 1..Len(given) \div 8 :
            CipherBlock(plain_bytes, k) =
              Xor64(BlockDecrypt(CipherBlock(given, k), key),
                    ChainBlock(given, given_iv[1], k - 1))

\* two blocks, the second the padded one, decrypted with the right IV
CbcChainingWitness ==
  /\ pc = "cbc_decrypted" /\ given_iv = iv /\ Len(given) = 16
  /\ Len(text) > 8 /\ result.ok /\ result.value = text
  /\ CipherBlock(PaddedText(text), 2) =
       Xor64(BlockDecrypt(CipherBlock(given, 2), key), CipherBlock(given, 1))

(***************************************************************************)
(* Properties of decrypt_str on forged ciphertexts (SpecForge)             *)
(***************************************************************************)
\* the padding of a final block is valid as section 4.6 of the spec has it
ValidPadding(fb) ==
  /\ fb[8] >= 1 /\ fb[8] <= 8
  /\ \A k \in 1..fb[8] : fb[9 - k] = fb[8]

\* the bytes the given ciphertext decrypts to: the bytes the caller
\* encrypted, as far as the given prefix goes
DecryptedBytes == SubSeq(plain, 1, Len(given))

\* the last 8 of them
DecryptedFinal == SubSeq(plain, Len(given) - 7, Len(given))

\* C18: decrypt_str returns at most one error, the first that applies of
\* CiphertextTooShort, CiphertextNotAligned, InitVecMissing (CBC only),
\* InvalidPadding, Utf8Error: bytes with invalid padding that are not UTF-8
\* give InvalidPadding, and Utf8Error is returned only for bytes whose
\* padding was valid and removed.
ErrorPrecedence ==
  pc = "forged_decrypted" =>
    IF Len(given) < 8
      THEN result.err = "CiphertextTooShort"
    ELSE IF Len(given) % 8 # 0
      THEN result.err = "CiphertextNotAligned"
    ELSE IF mode = "CBC" /\ given_iv = None
      THEN result.err = "InitVecMissing"
    ELSE /\ (~ValidPadding(DecryptedFinal) /\ ~Utf8Valid(DecryptedBytes)) =>
              result.err = "InvalidPadding"
         /\ result.err = "Utf8Error" =>
              /\ ValidPadding(DecryptedFinal)
              /\ ~Utf8Valid(SubSeq(DecryptedBytes, 1,
                                   Len(given) - DecryptedFinal[8]))
         /\ result.err \in {"none", "InvalidPadding", "Utf8Error"}

(***************************************************************************)
(* Properties of the padding check (SpecPad)                               *)
(***************************************************************************)
\* C2: check_padding returns the last byte p of a final block whose last p
\* bytes are p, 1 <= p <= 8, and fails on every other final block; so does
\* decrypt_str, with InvalidPadding, and otherwise it removes p bytes.
PaddingChecked ==
  /\ pc = "checked" =>
       IF ValidPadding(final_block)
         THEN pad_result = [ok |-> TRUE, to_remove |-> final_block[8]]
         ELSE ~pad_result.ok
  /\ pc = "unpadded" =>
       IF ValidPadding(final_block)
         THEN result.ok /\ Len(result.value) = 8 - final_block[8]
         ELSE result.err = "InvalidPadding"

(***************************************************************************)
(* Properties of the block engine (SpecBlock)                              *)
(***************************************************************************)
\* C4: Block::encrypt with an 80-bit key gives the four reference vectors
\* of PRESENT.
ReferenceVectors ==
  pc = "block_encrypted" =>
    /\ (prev = Zero64 /\ key = Key80Zero) => block = Cipher00
    /\ (prev = Zero64 /\ key = Key80Ones) => block = Cipher0F
    /\ (prev = Ones64 /\ key = Key80Zero) => block = CipherF0
    /\ (prev = Ones64 /\ key = Key80Ones) => block = CipherFF

ReferenceVectorsWitness ==
  /\ pc = "block_encrypted" /\ prev = Ones64 /\ key = Key80Ones
  /\ block = CipherFF

\* C5: a Block that was encrypted and decrypted equally often with one key,
\* in any order, has the state it started with.
BlockRoundTrip == depth = 0 => block = orig

BlockRoundTripWitness ==
  /\ pc = "block_decrypted" /\ depth = 0 /\ key.bits = 128
  /\ block = orig /\ prev # orig

(***************************************************************************)
(* Properties of the key schedule (SpecKeys)                               *)
(***************************************************************************)
\* a key register of w bits as its bits, bit 0 the lowest of the last byte
RegBits(reg, w) ==
  [k \in 0..w - 1 |-> BitOf(reg[(w \div 8) - 1 - (k \div 8)], k % 8)]

\* the register rotated left by 61 bits
RotL61(r, w) == [k \in 0..w - 1 |-> r[(k + w - 61) % w]]

\* the forward S-box on the four bits lo..lo+3
SubBits(r, w, lo) ==
  LET n == r[lo] + 2 * r[lo + 1] + 4 * r[lo + 2] + 8 * r[lo + 3]
  IN [k \in 0..w - 1 |->
        IF k \in lo..lo + 3 THEN BitOf(s_map_enc[n], k - lo) ELSE r[k]]

\* the round counter rc XORed into the five bits lo..lo+4
XorCounter(r, w, lo, rc) ==
  [k \in 0..w - 1 |->
     IF k \in lo..lo + 4 THEN (r[k] + BitOf(rc, k - lo)) % 2 ELSE r[k]]

\* step rc of the key schedule as section 4.3 of the spec describes it
ScheduleStepOf(r, w, rc) ==
  IF w = 80
    THEN XorCounter(SubBits(RotL61(r, 80), 80, 76), 80, 15, rc)
    ELSE XorCounter(SubBits(SubBits(RotL61(r, 128), 128, 124), 128, 120),
                    128, 62, rc)

\* the register after the steps rc..n, from the register r before step rc
RECURSIVE RegisterAfter(_, _, _, _)
RegisterAfter(r, w, rc, n) ==
  IF rc > n
    THEN r
    ELSE LET next == ScheduleStepOf(r, w, rc)
         IN CASE next \in [0..w - 1 -> {0, 1}] ->
              RegisterAfter(next, w, rc + 1, n)

\* the top 64 bits of a register of w bits
Top64(r, w) == [i \in 0..63 |-> r[w - 64 + i]]

\* round key i (0-based) of a key, by the description of the spec
RoundKeyOf(k, i) ==
  Top64(RegisterAfter(RegBits(k.value, k.bits), k.bits, 1, i), k.bits)

\* the round keys extracted so far are those of the description, and
\* generate_round_keys returns 32 of them
ScheduleAsDescribed ==
  /\ round_keys # <<>> =>
       round_keys[Len(round_keys)] = RoundKeyOf(key, Len(round_keys) - 1)
  /\ pc = "scheduled" =>
       (Len(round_keys) = 32 /\ round_keys = generate_round_keys(key))

\* C6: the 32 round keys of an 80-bit key are the top 64 bits of the
\* register after 0..31 steps of: rotate left by 61, S-box on the top
\* nibble, round counter into bits 19..15; with the vectors of the spec.
Schedule80 ==
  key.bits = 80 =>
    /\ ScheduleAsDescribed
    /\ (key = Key80Test /\ Len(round_keys) >= 3) =>
         /\ round_keys[1] = RoundKey0
         /\ round_keys[2] = RoundKey80_1
         /\ round_keys[3] = RoundKey80_2

Schedule80Witness ==
  /\ pc = "scheduled" /\ key = Key80Test /\ Len(round_keys) = 32
  /\ round_keys[3] = RoundKey80_2
  /\ round_keys[32] = RoundKeyOf(key, 31)

\* C7: the 32 round keys of a 128-bit key are the top 64 bits of the
\* register after 0..31 steps of: rotate left by 61, S-box on the two top
\* nibbles, round counter into bits 66..62; with the vectors of the spec.
Schedule128 ==
  key.bits = 128 =>
    /\ ScheduleAsDescribed
    /\ (key = Key128Test /\ Len(round_keys) >= 3) =>
         /\ round_keys[1] = RoundKey0
         /\ round_keys[2] = RoundKey128_1
         /\ round_keys[3] = RoundKey128_2

Schedule128Witness ==
  /\ pc = "scheduled" /\ key = Key128Test /\ Len(round_keys) = 32
  /\ round_keys[3] = RoundKey128_2
  /\ round_keys[32] = RoundKeyOf(key, 31)

(***************************************************************************)
(* Properties of the boxes (SpecBoxes)                                     *)
(***************************************************************************)
\* the operation applied last, "" if there was none
LastApplied == IF applied = <<>> THEN "" ELSE applied[Len(applied)]

\* nibble k of a state: its bits 4k..4k+3
NibbleAt(x, k) ==
  x[4 * k] + 2 * x[4 * k + 1] + 4 * x[4 * k + 2] + 8 * x[4 * k + 3]

\* the S-box tables of section 4.1 of the spec, indexed from 0
SpecSBox(n) == <<12, 5, 6, 11, 9, 0, 10, 13, 3, 14, 15, 8, 4, 7, 1, 2>>[n + 1]
SpecSBoxInv(n) == <<5, 14, 15, 8, 12, 1, 2, 13, 11, 4, 6, 3, 0, 7, 9, 10>>[n + 1]

\* 0xCCCCCCCCCCCCCCCC and 0xC56B90AD3EF84712
SubstZero == Hex(<<12, 12, 12, 12, 12, 12, 12, 12,
                   12, 12, 12, 12, 12, 12, 12, 12>>)
SubstDigits == Hex(<<12, 5, 6, 11, 9, 0, 10, 13, 3, 14, 15, 8, 4, 7, 1, 2>>)

\* C13: the substitution layers put each of the sixteen nibbles of the
\* state, the top one too, through the S-box (the inverse S-box for dec);
\* the zero state becomes 0xCCCCCCCCCCCCCCCC and 0x0123456789ABCDEF becomes
\* 0xC56B90AD3EF84712.
SixteenNibbles ==
  /\ LastApplied = "apply_substitution_enc" =>
       /\ \A k \in 0..15 : NibbleAt(block, k) = SpecSBox(NibbleAt(prev, k))
       /\ prev = Zero64 => block = SubstZero
       /\ prev = Digits64 => block = SubstDigits
  /\ LastApplied = "apply_substitution_dec" =>
       /\ \A k \in 0..15 : NibbleAt(block, k) = SpecSBoxInv(NibbleAt(prev, k))
       /\ prev = SubstZero => block = Zero64
       /\ prev = SubstDigits => block = Digits64

SixteenNibblesWitness ==
  /\ applied = <<"apply_substitution_enc", "apply_substitution_dec">>
  /\ orig = Digits64 /\ prev = SubstDigits /\ block = Digits64
  /\ NibbleAt(prev, 15) = 12

\* the position the spec gives bit i
P(i) == (i % 4) * 16 + (i \div 4)

\* 0x00FF0F0F33335555 and 0x0A30079B0FDB1164
PermDigits == Hex(<<0, 0, 15, 15, 0, 15, 0, 15, 3, 3, 3, 3, 5, 5, 5, 5>>)
PermTest == Hex(<<0, 10, 3, 0, 0, 7, 9, 11, 0, 15, 13, 11, 1, 1, 6, 4>>)

\* C14: PBox::apply_enc moves the bit at position i to position
\* P(i) = (i mod 4) * 16 + floor(i / 4), a bijection of 0..63 that fixes
\* 0, 21, 42 and 63; 0x0123456789ABCDEF becomes 0x00FF0F0F33335555 and
\* 0x0001A6E7639E6166 becomes 0x0A30079B0FDB1164.
PermutationFormula ==
  LastApplied = "apply_permutation_enc" =>
    /\ \A i \in 0..63 : block[P(i)] = prev[i]
    /\ {P(i) : i \in 0..63} = 0..63
    /\ \A k \in {0, 21, 42, 63} : prev = OneBit(k) => block = OneBit(k)
    /\ prev = Digits64 => block = PermDigits
    /\ prev = PBoxTest64 => block = PermTest

PermutationFormulaWitness ==
  /\ applied = <<"apply_permutation_enc">>
  /\ prev = PBoxTest64 /\ block = PermTest
  /\ block[P(17)] = prev[17] /\ prev[17] = 1 /\ P(17) = 20

\* C15: the decryption boxes undo the encryption boxes: for a nibble n,
\* apply_dec(apply_enc(n)) = n and apply_enc(apply_dec(n)) = n, with the
\* tables of the spec, and for a state x, PBox apply_dec(apply_enc(x)) = x.
BoxInverses ==
  /\ applied = <<"S_BOX.apply_enc">> => nibble = SpecSBox(nibble_orig)
  /\ applied = <<"S_BOX.apply_dec">> => nibble = SpecSBoxInv(nibble_orig)
  /\ applied = <<"S_BOX.apply_enc", "S_BOX.apply_dec">> =>
       nibble = nibble_orig
  /\ applied = <<"S_BOX.apply_dec", "S_BOX.apply_enc">> =>
       nibble = nibble_orig
  /\ applied = <<"apply_permutation_enc", "apply_permutation_dec">> =>
       block = orig

BoxInversesWitness ==
  /\ pc = "sbox" /\ applied = <<"S_BOX.apply_enc", "S_BOX.apply_dec">>
  /\ nibble_orig = 15 /\ nibble = 15

(***************************************************************************)
(* Properties of the threads (SpecPar)                                     *)
(***************************************************************************)
\* C16: encrypt and decrypt operations that run in parallel on their own
\* Blocks and keys, in any interleaving, the first use of S_BOX and P_BOX
\* included, give what each gives alone: no thread panics, a lazy static
\* that is complete holds the value of its initialiser, and an operation
\* that has returned left the result of the operation run alone.
ParallelAsAlone ==
  pc = "threads" =>
    /\ \A t \in Threads :
         /\ threads[t].at # "panicked"
         /\ threads[t].at = "done" => threads[t].state = threads[t].alone
    /\ S_BOX.once = "complete" => S_BOX.value = SBoxNew
    /\ P_BOX.once = "complete" => P_BOX.value = PBoxNew

\* both operations have returned; S_BOX was initialised by one thread and
\* P_BOX by the other
ParallelAsAloneWitness ==
  /\ pc = "threads"
  /\ \A t \in Threads :
       threads[t].at = "done" /\ threads[t].state = threads[t].alone
  /\ threads[1].op = "encrypt" /\ threads[2].op = "decrypt"
  /\ S_BOX.once = "complete" /\ S_BOX.by = 2
  /\ P_BOX.once = "complete" /\ P_BOX.by = 1

=============================================================================
